---- MODULE Spec2Model ----
(***************************************************************************)
(* The project importer of the editor (ProjectImporter, src/unnamed/       *)
(* part_003) as a state machine.  One import is one walk of pc through the *)
(* steps of _ImportProject; each loop iteration is one action.  The        *)
(* manifest fixes only the lengths of its lists when it is read; what an   *)
(* entry and its file hold is drawn when the loop reaches the entry        *)
(* (nothing in the importer reads it earlier).                             *)
(***************************************************************************)
EXTENDS Integers, Sequences, FiniteSets, TLC

\* ------------------------------------------------------------- bounds
MaxEntities == 2    \* entries of the manifest, all lists together
MaxPerList  == 2    \* entries of one list of the manifest
MaxId       == 2    \* node and material ids are 1..MaxId
MaxTexId    == 2    \* texture unique ids are 1..MaxTexId
MaxName     == 1    \* metadata.editorName values are 1..MaxName
MaxLods     == 2    \* LOD descriptors of one mesh file
MaxFiles    == 2    \* entries of filesList
MaxSegments == 2    \* path segments of one entry of filesList
MaxDropped  == 2    \* files of one drop, asset meshes of a manifest
MaxRemoved  == 2    \* removals that can be undone
MaxAssets   == 3    \* entries of MeshesAssets.Meshes the component grows the list to
MaxMessages == 3    \* messages the offscreen assets worker receives

\* undefined / null / "" : every falsy value the importer tests for
None == 0

NodeIds     == 1..MaxId
DanglingId  == MaxId + 1              \* an id no node of any file carries
LodId       == MaxId + 2              \* the id of the meshes inlined as LODs
ParentIds   == {None} \cup NodeIds \cup {DanglingId}
TexIds      == 1..MaxTexId
EditorNames == {None} \cup (1..MaxName)

\* bindedMeshes of a material entry: at most two distinct ids, drawn from an
\* id a mesh may carry and an id no mesh carries
BindLists == {<<>>, <<1>>, <<DanglingId>>, <<1, DanglingId>>, <<DanglingId, 1>>}

\* lods of a mesh file: what the import of each inlined LOD does
LodOutcomes == {"ok", "throws", "notMesh"}
RECURSIVE SeqsUpTo(_, _)
SeqsUpTo(S, n) ==
    IF n = 0 THEN {<<>>}
    ELSE LET shorter == SeqsUpTo(S, n - 1)
         IN  shorter \cup {Append(s, x) : s \in {t \in shorter : Len(t) = n - 1}, x \in S}
LodLists == SeqsUpTo(LodOutcomes, MaxLods)
\* the lods of a mesh file with at most one LOD
ShortLodLists == {lods \in LodLists : Len(lods) <= 1}

\* the value String(l) gives for a manifest light entry l, an object
ObjectObject == 0

\* ---------------------------------------------------------------- paths
\* a path is the sequence of its segments; an entry of filesList is a relative
\* path that may hold "." and ".." segments
Segments  == {"a", ".", ".."}
FileNames == SeqsUpTo(Segments, MaxSegments) \ {<<>>}
FilesLists == SeqsUpTo(FileNames, MaxFiles)

\* Project.DirPath, an absolute directory
DirPath == <<"project">>

\* path.normalize of an absolute path, from segment k on: "." is dropped, ".."
\* drops the segment before it (at the root, itself)
RECURSIVE Normalize(_, _, _)
Normalize(done, path, k) ==
    IF k > Len(path) THEN done
    ELSE Normalize(
           CASE path[k] = "." -> done
             [] path[k] = ".." -> IF Len(done) = 0 THEN done
                                  ELSE SubSeq(done, 1, Len(done) - 1)
             [] OTHER -> Append(done, path[k]),
           path, k + 1)

\* path.join: the segments of its arguments, normalized
Join(a, b, c) == Normalize(<<>>, a \o b \o c, 1)

\* path.basename: what follows the last separator, not normalized
Basename(f) == f[Len(f)]

\* FilesStore.List with no key
EmptyRegistry == [key \in {} |-> None]

VARIABLES
    pc,            \* the step _ImportProject is at
    i,             \* index of the next entry of the current loop
    steps,         \* history: the steps started so far, in order
    project,       \* the manifest, once read
    scene,         \* editor.scene: meshes, transformNodes, lights, cameras, materials, textures
    attempts,      \* history: per list, the outcome of each entry attempted
    spinnerValue,  \* spinnerValue, in units of spinnerStep
    spinner,       \* the last value given to Overlay.SetSpinnervalue, in the same units
    log,           \* editor.console
    overlay,       \* Overlay: "hidden" or "shown"
    parser,        \* SerializationHelper._TextureParser: "engine" or "editor"
    files,         \* FilesStore.List: the record under each key
    assets,        \* MeshesAssets.Meshes, PrefabAssets.Prefabs, the items of the
                   \* meshes component and the removals that can be undone
    cache,         \* Assets cached data: how many times SetCachedData replaced it
    worker,        \* the offscreen assets worker: its helper instance, the handler
                   \* of every message received and the replies posted
    observers,     \* one-shot observers of scene.onReadyObservable
    refreshed,     \* calls of _RefreshEditor
    thrown,        \* history: the step whose error escaped _ImportProject, or "none"
    objectUrls,    \* object URLs created and not revoked
    pipelines      \* the post-process pipelines configured

vars == <<pc, i, steps, project, scene, attempts, spinnerValue, spinner, log,
          overlay, parser, files, assets, cache, worker, observers, refreshed, thrown,
          objectUrls, pipelines>>

\* ------------------------------------------------------------ manifest
Lists == {"meshes", "transformNodes", "materials", "textures", "lights", "cameras"}

Names(n) == [k \in 1..n |-> k]

\* IProject: the lists of entity file names
Manifests ==
    {[meshes |-> Names(a), transformNodes |-> Names(b), materials |-> Names(c),
      textures |-> Names(d), lights |-> Names(e), cameras |-> Names(f)] :
        a \in 0..MaxPerList, b \in 0..MaxPerList, c \in 0..MaxPerList,
        d \in 0..MaxPerList, e \in 0..MaxPerList, f \in 0..MaxPerList}

Entries(p) == Len(p.meshes) + Len(p.transformNodes) + Len(p.materials)
              + Len(p.textures) + Len(p.lights) + Len(p.cameras)

EmptyProject == [meshes |-> <<>>, transformNodes |-> <<>>, materials |-> <<>>,
                 textures |-> <<>>, lights |-> <<>>, cameras |-> <<>>,
                 filesList |-> <<>>, assets |-> [meshes |-> <<>>, prefabs |-> <<>>]]

\* the denominator of spinnerStep
TotalUnits(p) == Len(p.textures) + Len(p.materials) + Len(p.meshes)
                 + Len(p.lights) + Len(p.cameras)

\* ---------------------------------------------------------- step order
ImportOrderSwapped ==
    <<"files", "sceneSettings", "cameraSettings", "materials", "transformNodes",
      "physics", "meshes", "textures", "lights", "cameras", "postProcesses",
      "cache", "parents", "ready">>

ImportOrderCacheFirst ==
    <<"files", "sceneSettings", "cameraSettings", "cache", "meshes", "transformNodes",
      "physics", "materials", "textures", "lights", "cameras", "postProcesses",
      "parents", "ready">>

\* the statements of _ImportProject after the manifest read, in program order
ImportOrder ==
    <<"files", "sceneSettings", "cameraSettings", "meshes", "transformNodes",
      "physics", "materials", "textures", "lights", "cameras", "postProcesses",
      "cache", "parents", "ready">>

StepIndex(s) == CHOOSE k \in 1..Len(ImportOrder) : ImportOrder[k] = s

\* a for-of over an empty list runs no iteration: control passes through it
RECURSIVE Skip(_, _)
Skip(k, p) ==
    IF k > Len(ImportOrder) THEN k
    ELSE IF ImportOrder[k] \in Lists /\ Len(p[ImportOrder[k]]) = 0 THEN Skip(k + 1, p)
    ELSE k

\* control leaves step number k and reaches the next statement that does something
Goto(k, p) ==
    LET n == Skip(k + 1, p)
    IN  /\ pc' = IF n > Len(ImportOrder) THEN "waitReady" ELSE ImportOrder[n]
        /\ i' = 1
        /\ steps' = steps \o SubSeq(ImportOrder, k + 1,
                                    IF n > Len(ImportOrder) THEN Len(ImportOrder) ELSE n)

\* the end of iteration i of the loop of step pc
NextIteration ==
    IF i < Len(project[pc])
    THEN /\ i' = i + 1
         /\ UNCHANGED <<pc, steps>>
    ELSE Goto(StepIndex(pc), project)

\* ------------------------------------------------------------- console
Entry(level, tag, name) == [level |-> level, tag |-> tag, name |-> name]

\* ------------------------------------------------------------- scene
EmptyScene == [meshes |-> <<>>, transformNodes |-> <<>>, lights |-> <<>>,
               cameras |-> <<>>, materials |-> <<>>, textures |-> <<>>,
               shadowGenerators |-> <<>>]

NoNode == <<"none", 0>>

\* a node as the importer leaves it after its parse: _waitingParentId is the
\* parentId of its file, decl remembers that value for the claims
Node(id, parentId, src) ==
    [id |-> id, wp |-> parentId, par |-> NoNode, decl |-> parentId, src |-> src]

MeshNode(id, parentId, src, lodOf) ==
    [id |-> id, wp |-> parentId, par |-> NoNode, decl |-> parentId, src |-> src,
     mat |-> 0, lodOf |-> lodOf, dist |-> 0, impostor |-> FALSE]

Init ==
    /\ pc = "idle"
    /\ i = 1
    /\ steps = <<>>
    /\ project = EmptyProject
    /\ scene = EmptyScene
    /\ attempts = [l \in Lists |-> <<>>]
    /\ spinnerValue = 0
    /\ spinner = -1
    /\ log = <<>>
    /\ overlay = "hidden"
    /\ parser = "engine"
    /\ files = EmptyRegistry
    /\ assets = [meshes |-> <<>>, prefabs |-> <<>>, items |-> <<>>, removed |-> <<>>]
    /\ cache = 0
    /\ observers = 0
    /\ refreshed = 0
    /\ thrown = "none"
    /\ objectUrls = 0
    /\ pipelines = {}
    /\ worker = [instance |-> FALSE, mesh |-> FALSE, handlers |-> <<>>, posted |-> <<>>]

\* -------------------------------------------------------- asset lists
\* the files a user drops on the meshes component, by name
AssetNames == {"a.babylon", "b.GLB", "c.png"}

\* path.extname
Extname(name) ==
    CASE name = "a.babylon" -> ".babylon"
      [] name = "b.GLB" -> ".GLB"
      [] name = "c.png" -> ".png"

\* String.toLowerCase, on the extensions above
ToLowerCase(ext) == IF ext = ".GLB" THEN ".glb" ELSE ext

\* MeshesAssets._extensions
Extensions == {".babylon", ".glb"}

\* an entry of MeshesAssets.Meshes: { name, path: join(DirPath, "assets", "meshes", name) }
MeshFile(name) == [name |-> name, path |-> Join(DirPath, <<"assets", "meshes">>, <<name>>)]

\* an entry of PrefabAssets.Prefabs: { name, path: join(DirPath, "prefabs", name) }
PrefabFile(name) == [name |-> name, path |-> Join(DirPath, <<"prefabs">>, <<name>>)]

\* MeshesAssets.refresh, from entry k of MeshesAssets.Meshes on: an item is
\* pushed for every entry no item has the path of
RECURSIVE RefreshItems(_, _, _)
RefreshItems(items, meshes, k) ==
    IF k > Len(meshes) THEN items
    ELSE RefreshItems(
           IF \E n \in 1..Len(items) : items[n].key = meshes[k].path THEN items
           ELSE Append(items, [id |-> meshes[k].name, key |-> meshes[k].path]),
           meshes, k + 1)

Refresh(a) == [a EXCEPT !.items = RefreshItems(a.items, a.meshes, 1)]

\* ------------------------------------------------------- ImportProject
\* _RefreshEditor: assets and graph refreshed, overlay hidden
RefreshEditor ==
    /\ refreshed' = refreshed + 1
    /\ overlay' = "hidden"

ThrowNoRefresh(s) ==
    /\ thrown' = s
    /\ pc' = "returned"
    /\ UNCHANGED <<i, steps, refreshed, overlay>>

\* an error escapes _ImportProject at step s: the catch of ImportProject runs
Throw(s) ==
    /\ thrown' = s
    /\ pc' = "returned"
    /\ RefreshEditor
    /\ UNCHANGED <<i, steps>>

\* the filesList and assets of a manifest of plain file names; prefabs is
\* empty when the manifest has none (nothing is pushed either way)
PlainFiles == [filesList |-> <<<<"a">>, <<"a", "a">>>>,
               assets |-> [meshes |-> <<"a.babylon">>, prefabs |-> <<>>]]

\* Overlay.Show, the texture parser override, Project.Path, the manifest read,
\* Overlay.SetSpinnervalue(0); the manifest is one of M
StartImport(M) ==
    /\ pc = "idle"
    /\ parser' = "editor"
    /\ \/ \* readJSON throws, or the document lacks the lists spinnerStep reads
          /\ Throw("manifest")
          /\ UNCHANGED <<project, spinner>>
       \/ \E p \in M :
            /\ project' = p
            /\ spinner' = 0
            /\ overlay' = "shown"
            /\ Goto(0, p)
            /\ UNCHANGED <<thrown, refreshed>>
    /\ UNCHANGED <<scene, attempts, spinnerValue, log, files, assets, cache, worker, observers,
                   objectUrls, pipelines>>

\* an import of a manifest of at most MaxEntities entries
ReadManifest ==
    StartImport({p @@ PlainFiles : p \in {q \in Manifests : Entries(q) <= MaxEntities}})

\* an import of a manifest that lists materials and textures only
ReadMaterialManifest ==
    StartImport({p @@ PlainFiles :
                   p \in {q \in Manifests : Entries(q) = Len(q.materials) + Len(q.textures)}})

\* an import of a manifest that lists meshes only
ReadMeshManifest ==
    StartImport({p @@ PlainFiles : p \in {q \in Manifests : Entries(q) = Len(q.meshes)}})

\* an import of a manifest that lists one mesh and materials
ReadBindingManifest ==
    StartImport({p @@ PlainFiles :
                   p \in {q \in Manifests : /\ Len(q.meshes) = 1
                                            /\ Entries(q) = 1 + Len(q.materials)}})

\* an import of a manifest without entities that lists up to MaxDropped asset
\* meshes
ReadAssetsManifest ==
    StartImport({p @@ [filesList |-> <<>>, assets |-> [meshes |-> am, prefabs |-> <<>>]] :
                   p \in {q \in Manifests : Entries(q) = 0},
                   am \in SeqsUpTo(AssetNames, MaxDropped)})

\* an import of a manifest of at most one entity, with any filesList, that
\* lists a prefab
ReadFilesManifest ==
    StartImport({p @@ [filesList |-> fl,
                       assets |-> [meshes |-> <<"a.babylon">>, prefabs |-> <<"a">>]] :
                   p \in {q \in Manifests : Entries(q) <= 1}, fl \in FilesLists})

RegisterFilesUnderName ==
    /\ pc = "files"
    /\ files' = [key \in DOMAIN files \cup
                          {project.filesList[k] : k \in 1..Len(project.filesList)} |->
                    IF key \in DOMAIN files THEN files[key]
                    ELSE [path |-> key, name |-> Basename(key)]]
    /\ assets' = [assets EXCEPT
                    !.meshes = @ \o [k \in 1..Len(project.assets.meshes) |->
                                       MeshFile(project.assets.meshes[k])],
                    !.prefabs = @ \o [k \in 1..Len(project.assets.prefabs) |->
                                        PrefabFile(project.assets.prefabs[k])]]
    /\ Goto(StepIndex("files"), project)
    /\ UNCHANGED <<project, scene, attempts, spinnerValue, spinner, log, overlay,
                   parser, cache, worker, observers, refreshed, thrown, objectUrls, pipelines>>

\* project.filesList.forEach, from entry k on:
\* FilesStore.List[path] = { path, name: basename(f) }
RECURSIVE Register(_, _, _)
Register(list, fl, k) ==
    IF k > Len(fl) THEN list
    ELSE LET path == Join(DirPath, <<"files">>, fl[k])
         IN  Register([key \in DOMAIN list \cup {path} |->
                          IF key = path THEN [path |-> path, name |-> Basename(fl[k])]
                          ELSE list[key]],
                      fl, k + 1)

\* Register files, Configure assets
RegisterFiles ==
    /\ pc = "files"
    /\ files' = Register(files, project.filesList, 1)
    /\ assets' = [assets EXCEPT
                    !.meshes = @ \o [k \in 1..Len(project.assets.meshes) |->
                                       MeshFile(project.assets.meshes[k])],
                    !.prefabs = @ \o [k \in 1..Len(project.assets.prefabs) |->
                                        PrefabFile(project.assets.prefabs[k])]]
    /\ Goto(StepIndex("files"), project)
    /\ UNCHANGED <<project, scene, attempts, spinnerValue, spinner, log, overlay,
                   parser, cache, worker, observers, refreshed, thrown, objectUrls, pipelines>>

\* ProjectHelpers.ImportSceneSettings, outside any try
ImportSceneSettings ==
    /\ pc = "sceneSettings"
    /\ \/ /\ Goto(StepIndex("sceneSettings"), project)
          /\ UNCHANGED <<thrown, refreshed, overlay>>
       \/ Throw("sceneSettings")
    /\ UNCHANGED <<project, scene, attempts, spinnerValue, spinner, log, parser,
                   files, assets, cache, worker, observers, objectUrls, pipelines>>

\* SceneSettings.ConfigureFromJson, outside any try
ConfigureCamera ==
    /\ pc = "cameraSettings"
    /\ \/ /\ Goto(StepIndex("cameraSettings"), project)
          /\ UNCHANGED <<thrown, refreshed, overlay>>
       \/ Throw("cameraSettings")
    /\ UNCHANGED <<project, scene, attempts, spinnerValue, spinner, log, parser,
                   files, assets, cache, worker, observers, objectUrls, pipelines>>

\* --------------------------------------------------------------- meshes
\* what one entry of a list came to: "ok", "fail" (its load threw) or "skip",
\* with the identity key its file carries (None when the file was not read)
\* and, for a mesh file, its lods
Attempt(list, res, key) ==
    [attempts EXCEPT ![list] = Append(@, [res |-> res, key |-> key, lods |-> <<>>])]

\* Overlay.SetSpinnervalue(spinnerValue += spinnerStep)
StepSpinner ==
    /\ spinnerValue' = spinnerValue + 1
    /\ spinner' = spinnerValue + 1

\* ImportMesh, the Lods loop, from descriptor k on.  st = [scene, log, urls];
\* base is the index of result.meshes[0] in scene.meshes; descriptor k has
\* distance k
RECURSIVE ImportLods(_, _, _, _, _)
ImportLods(st, base, lods, k, name) ==
    IF k > Len(lods) THEN st
    ELSE LET next ==
               CASE lods[k] = "ok" ->
                      \* imported, a Mesh: addLODLevel, revokeObjectURL, logInfo
                      [scene |-> [st.scene EXCEPT !.meshes =
                                     Append(@, [MeshNode(LodId, None, 0, base)
                                                   EXCEPT !.dist = k])],
                       log   |-> Append(st.log, Entry("info", "lod", name)),
                       urls  |-> st.urls]
                 [] lods[k] = "throws" ->
                      \* ImportMeshAsync rejects after createObjectURL: the catch logs
                      [scene |-> st.scene,
                       log   |-> Append(st.log, Entry("error", "lod", name)),
                       urls  |-> st.urls + 1]
                 [] OTHER ->
                      \* no mesh, or not a Mesh: continue, before revokeObjectURL
                      [scene |-> st.scene, log |-> st.log, urls |-> st.urls + 1]
         IN  ImportLods(next, base, lods, k + 1, name)

\* ImportMesh up to the Lods loop: the base mesh is in the scene, "Parsed mesh"
\* is logged, _waitingParentId is the parentId of the file
ImportBase(id, parentId, name) ==
    [scene |-> [scene EXCEPT !.meshes = Append(@, MeshNode(id, parentId, name, 0))],
     log   |-> Append(log, Entry("info", "mesh", name)),
     urls  |-> objectUrls]

LoadMeshNoCatch ==
    /\ pc = "meshes"
    /\ \/ /\ Throw("meshes")
          /\ log' = Append(log, Entry("error", "mesh", i))
          /\ attempts' = Attempt("meshes", "fail", None)
          /\ UNCHANGED <<scene, objectUrls, spinnerValue, spinner>>
       \/ /\ \E id \in NodeIds, parentId \in ParentIds, lods \in ShortLodLists :
               LET st == ImportLods(ImportBase(id, parentId, i), Len(scene.meshes) + 1,
                                    lods, 1, i)
               IN  /\ scene' = st.scene
                   /\ log' = st.log
                   /\ objectUrls' = st.urls
                   /\ attempts' = Attempt("meshes", "ok", id)
          /\ StepSpinner
          /\ NextIteration
          /\ UNCHANGED <<thrown, refreshed, overlay>>
    /\ UNCHANGED <<project, parser, files, assets, cache, worker, observers, pipelines>>

LoadMeshLodAborts(L) ==
    /\ pc = "meshes"
    /\ \/ /\ log' = Append(log, Entry("error", "mesh", i))
          /\ attempts' = Attempt("meshes", "fail", None)
          /\ UNCHANGED <<scene, objectUrls>>
       \/ \E id \in NodeIds, parentId \in ParentIds, lods \in L :
            LET bad == IF \E k \in 1..Len(lods) : lods[k] = "throws"
                       THEN CHOOSE k \in 1..Len(lods) :
                               /\ lods[k] = "throws"
                               /\ \A j \in 1..(k - 1) : lods[j] # "throws"
                       ELSE 0
                st == ImportLods(ImportBase(id, parentId, i), Len(scene.meshes) + 1,
                                 IF bad = 0 THEN lods ELSE SubSeq(lods, 1, bad - 1), 1, i)
            IN  /\ scene' = st.scene
                /\ log' = IF bad = 0 THEN st.log
                          ELSE Append(st.log, Entry("error", "mesh", i))
                /\ objectUrls' = IF bad = 0 THEN st.urls ELSE st.urls + 1
                /\ attempts' = [Attempt("meshes", IF bad = 0 THEN "ok" ELSE "fail", id)
                                  EXCEPT !.meshes[i].lods = lods]
    /\ StepSpinner
    /\ NextIteration
    /\ UNCHANGED <<project, overlay, parser, files, assets, cache, worker, observers, refreshed,
                   thrown, pipelines>>

\* one iteration of the mesh loop: readJSON, ImportMesh, the catch, the spinner;
\* the lods of the mesh file are one of L
LoadMeshOf(L) ==
    /\ pc = "meshes"
    /\ \/ \* readJSON or the first ImportMeshAsync throws: nothing was installed
          /\ log' = Append(log, Entry("error", "mesh", i))
          /\ attempts' = Attempt("meshes", "fail", None)
          /\ UNCHANGED <<scene, objectUrls>>
       \/ \E id \in NodeIds, parentId \in ParentIds :
            \/ \* json.lods is missing: for-of throws after the base mesh is installed
               LET st == ImportBase(id, parentId, i)
               IN  /\ scene' = st.scene
                   /\ log' = Append(st.log, Entry("error", "mesh", i))
                   /\ attempts' = Attempt("meshes", "fail", id)
                   /\ UNCHANGED objectUrls
            \/ \E lods \in L :
                 LET st == ImportLods(ImportBase(id, parentId, i), Len(scene.meshes) + 1,
                                      lods, 1, i)
                 IN  /\ scene' = st.scene
                     /\ log' = st.log
                     /\ objectUrls' = st.urls
                     /\ attempts' = [Attempt("meshes", "ok", id)
                                       EXCEPT !.meshes[i].lods = lods]
    /\ StepSpinner
    /\ NextIteration
    /\ UNCHANGED <<project, overlay, parser, files, assets, cache, worker, observers, refreshed,
                   thrown, pipelines>>

\* the mesh loop over mesh files of at most one LOD
LoadMesh == LoadMeshOf(ShortLodLists)

\* the mesh loop over mesh files without LODs
LoadMeshPlain == LoadMeshOf({<<>>})

\* the mesh loop over mesh files of up to MaxLods LODs
LoadMeshLods == LoadMeshOf(LodLists)

LoadTransformNodeCounted ==
    /\ pc = "transformNodes"
    /\ \/ /\ log' = Append(log, Entry("error", "transformNode", i))
          /\ attempts' = Attempt("transformNodes", "fail", None)
          /\ UNCHANGED scene
       \/ \E id \in NodeIds, parentId \in ParentIds :
            /\ scene' = [scene EXCEPT !.transformNodes = Append(@, Node(id, parentId, i))]
            /\ attempts' = Attempt("transformNodes", "ok", id)
            /\ UNCHANGED log
    /\ StepSpinner
    /\ NextIteration
    /\ UNCHANGED <<project, overlay, parser, files, assets, cache, worker, observers, refreshed,
                   thrown, objectUrls, pipelines>>

\* one iteration of the transform-node loop: no spinner update
LoadTransformNode ==
    /\ pc = "transformNodes"
    /\ \/ \* readJSON or TransformNode.Parse throws
          /\ log' = Append(log, Entry("error", "transformNode", i))
          /\ attempts' = Attempt("transformNodes", "fail", None)
          /\ UNCHANGED scene
       \/ \E id \in NodeIds, parentId \in ParentIds :
            /\ scene' = [scene EXCEPT !.transformNodes = Append(@, Node(id, parentId, i))]
            /\ attempts' = Attempt("transformNodes", "ok", id)
            /\ UNCHANGED log
    /\ NextIteration
    /\ UNCHANGED <<project, spinnerValue, spinner, overlay, parser, files, assets, cache, worker,
                   observers, refreshed, thrown, objectUrls, pipelines>>

\* scene.meshes.forEach of the physics step, from mesh k on; bad is the index of
\* the mesh whose getImpostorForPhysicsObject throws (0: none does)
RECURSIVE SetImpostors(_, _, _)
SetImpostors(st, k, bad) ==
    IF k > Len(st.scene.meshes) THEN st
    ELSE SetImpostors(
           IF k = bad
           THEN [st EXCEPT !.log = Append(@, Entry("error", "physics", st.scene.meshes[k].src))]
           ELSE [scene |-> [st.scene EXCEPT !.meshes[k].impostor = TRUE],
                 log   |-> Append(st.log, Entry("info", "physics", st.scene.meshes[k].src))],
           k + 1, bad)

\* Retrieve physics impostors for meshes
PhysicsImpostors ==
    /\ pc = "physics"
    /\ \/ \* scene.getPhysicsEngine() is null
          UNCHANGED <<scene, log>>
       \/ \E bad \in 0..Len(scene.meshes) :
            LET st == SetImpostors([scene |-> scene, log |-> log], 1, bad)
            IN  /\ scene' = st.scene
                /\ log' = st.log
    /\ Goto(StepIndex("physics"), project)
    /\ UNCHANGED <<project, attempts, spinnerValue, spinner, overlay, parser, files, assets,
                   cache, worker, observers, refreshed, thrown, objectUrls, pipelines>>

\* ------------------------------------------------------------ materials
\* a texture as a material definition embeds it: its serialized uniqueId and
\* metadata.editorName; NoSource when the material embeds none
NoSource == [uid |-> None, name |-> None]
TexSources == {NoSource} \cup [uid : TexIds, name : EditorNames]

\* index of the first element of s whose field f is v, 0 when there is none
FirstWith(s, f, v) ==
    IF \E k \in 1..Len(s) : s[k][f] = v
    THEN CHOOSE k \in 1..Len(s) : s[k][f] = v /\ \A j \in 1..(k - 1) : s[j][f] # v
    ELSE 0

\* the engine's texture parser (Texture.Parse): a new texture that keeps the
\* serialized uniqueId and metadata
EngineTextureParser(sc, source, step) ==
    [scene |-> [sc EXCEPT !.textures =
                   Append(@, [uid |-> source.uid, name |-> source.name, src |-> step])],
     tex   |-> Len(sc.textures) + 1]

TextureParserByUniqueId(sc, source) ==
    IF FirstWith(sc.textures, "uid", source.uid) # 0
    THEN [scene |-> sc, tex |-> FirstWith(sc.textures, "uid", source.uid)]
    ELSE EngineTextureParser(sc, source, "materials")

\* the override of SerializationHelper._TextureParser: the scene texture with the
\* editorName of the source when the source has one and the scene such a texture,
\* the engine's parser otherwise
TextureParser(sc, source) ==
    IF source.name # None /\ FirstWith(sc.textures, "name", source.name) # 0
    THEN [scene |-> sc, tex |-> FirstWith(sc.textures, "name", source.name)]
    ELSE EngineTextureParser(sc, source, "materials")

\* Material.Parse / MultiMaterial.ParseMultiMaterial: the material is in the
\* scene, its embedded texture went through SerializationHelper._TextureParser
MaterialParse(sc, id, multi, source, bm, name) ==
    LET r == IF multi \/ source = NoSource THEN [scene |-> sc, tex |-> 0]
             ELSE TextureParser(sc, source)
    IN  [r.scene EXCEPT !.materials =
            Append(@, [id |-> id, multi |-> multi, tex |-> r.tex, source |-> source,
                       bm |-> bm, src |-> name])]

\* scene.getMeshByID
GetMeshByID(sc, id) == FirstWith(sc.meshes, "id", id)

BindMeshesAbort(st, bm, k, mat, name) ==
    IF \E j \in 1..Len(bm) : GetMeshByID(st.scene, bm[j]) = 0
    THEN [scene |-> st.scene, log |-> Append(st.log, Entry("error", "material", name))]
    ELSE [scene |-> [st.scene EXCEPT !.meshes =
                        [j \in 1..Len(@) |->
                            IF \E n \in 1..Len(bm) : GetMeshByID(st.scene, bm[n]) = j
                            THEN [@[j] EXCEPT !.mat = mat] ELSE @[j]]],
          log   |-> st.log]

\* m.bindedMeshes.forEach, from id k on: mesh.material = material, or a warning
RECURSIVE BindMeshes(_, _, _, _, _)
BindMeshes(st, bm, k, mat, name) ==
    IF k > Len(bm) THEN st
    ELSE LET mesh == GetMeshByID(st.scene, bm[k])
         IN  BindMeshes(
               IF mesh # 0
               THEN [st EXCEPT !.scene.meshes[mesh].mat = mat]
               ELSE [st EXCEPT !.log = Append(@, Entry("warning", "material", name))],
               bm, k + 1, mat, name)

LoadMaterialMultiUnbound(S) ==
    /\ pc = "materials"
    /\ \/ /\ log' = Append(log, Entry("error", "material", i))
          /\ attempts' = Attempt("materials", "fail", None)
          /\ UNCHANGED scene
       \/ \E id \in NodeIds, multi \in BOOLEAN, source \in S, bm \in BindLists :
            /\ multi => source = NoSource
            /\ LET parsed == MaterialParse(scene, id, multi, source, bm, i)
                   st == BindMeshes([scene |-> parsed,
                                     log |-> Append(log, Entry("info", "material", i))],
                                    IF multi THEN <<>> ELSE bm, 1,
                                    Len(parsed.materials), i)
               IN  /\ scene' = st.scene
                   /\ log' = st.log
            /\ attempts' = Attempt("materials", "ok", id)
    /\ StepSpinner
    /\ NextIteration
    /\ UNCHANGED <<project, overlay, parser, files, assets, cache, worker, observers, refreshed,
                   thrown, objectUrls, pipelines>>

\* one iteration of the material loop; the texture the material definition
\* embeds is one of S
LoadMaterialOf(S) ==
    /\ pc = "materials"
    /\ \/ \* readJSON or the parse throws
          /\ log' = Append(log, Entry("error", "material", i))
          /\ attempts' = Attempt("materials", "fail", None)
          /\ UNCHANGED scene
       \/ \E id \in NodeIds, multi \in BOOLEAN, source \in S, bm \in BindLists :
            /\ multi => source = NoSource
            /\ LET parsed == MaterialParse(scene, id, multi, source, bm, i)
                   st == BindMeshes([scene |-> parsed,
                                     log |-> Append(log, Entry("info", "material", i))],
                                    bm, 1, Len(parsed.materials), i)
               IN  /\ scene' = st.scene
                   /\ log' = st.log
            /\ attempts' = Attempt("materials", "ok", id)
    /\ StepSpinner
    /\ NextIteration
    /\ UNCHANGED <<project, overlay, parser, files, assets, cache, worker, observers, refreshed,
                   thrown, objectUrls, pipelines>>

\* the material loop over material definitions that may embed a texture
LoadMaterial == LoadMaterialOf(TexSources)

\* the material loop over material definitions that embed no texture
LoadMaterialPlain == LoadMaterialOf({NoSource})

\* ------------------------------------------------------------- textures
\* scene.getTextureByUniqueID
GetTextureByUniqueID(sc, uid) == FirstWith(sc.textures, "uid", uid)

LoadTextureNoCheck ==
    /\ pc = "textures"
    /\ \/ /\ log' = Append(log, Entry("error", "texture", i))
          /\ attempts' = Attempt("textures", "fail", None)
          /\ UNCHANGED scene
       \/ \E uid \in TexIds :
            /\ scene' = EngineTextureParser(scene, [uid |-> uid, name |-> None],
                                            "textures").scene
            /\ log' = Append(log, Entry("info", "texture", i))
            /\ attempts' = Attempt("textures", "ok", uid)
    /\ StepSpinner
    /\ NextIteration
    /\ UNCHANGED <<project, overlay, parser, files, assets, cache, worker, observers, refreshed,
                   thrown, objectUrls, pipelines>>

\* one iteration of the texture loop; "continue" leaves the body before the
\* spinner update
LoadTexture ==
    /\ pc = "textures"
    /\ \/ \* readJSON throws
          /\ log' = Append(log, Entry("error", "texture", i))
          /\ attempts' = Attempt("textures", "fail", None)
          /\ StepSpinner
          /\ UNCHANGED scene
       \/ \E uid \in TexIds :
            IF GetTextureByUniqueID(scene, uid) # 0
            THEN /\ attempts' = Attempt("textures", "skip", uid)
                 /\ UNCHANGED <<scene, log, spinnerValue, spinner>>
            ELSE \/ /\ scene' = EngineTextureParser(scene, [uid |-> uid, name |-> None],
                                                    "textures").scene
                    /\ log' = Append(log, Entry("info", "texture", i))
                    /\ attempts' = Attempt("textures", "ok", uid)
                    /\ StepSpinner
                 \/ \* Texture.Parse throws
                    /\ log' = Append(log, Entry("error", "texture", i))
                    /\ attempts' = Attempt("textures", "fail", uid)
                    /\ StepSpinner
                    /\ UNCHANGED scene
    /\ NextIteration
    /\ UNCHANGED <<project, overlay, parser, files, assets, cache, worker, observers, refreshed,
                   thrown, objectUrls, pipelines>>

\* ------------------------------------------------------ lights, cameras
\* one iteration of the light loop.  Light.Parse installs the light with the
\* parentId of its file as _waitingParentId; the catch logs the entry object
LoadLight ==
    /\ pc = "lights"
    /\ \/ \* readJSON of the light or Light.Parse throws
          /\ log' = Append(log, Entry("error", "light", ObjectObject))
          /\ attempts' = Attempt("lights", "fail", None)
          /\ UNCHANGED scene
       \/ \E id \in NodeIds, parentId \in ParentIds :
            LET parsed == [scene EXCEPT !.lights = Append(@, Node(id, parentId, i))]
                parsedLog == Append(log, Entry("info", "light", i))
            IN  \/ \* l.shadowGenerator is undefined
                   /\ scene' = parsed
                   /\ log' = parsedLog
                   /\ attempts' = Attempt("lights", "ok", id)
                \/ \* the shadow generator is read and parsed
                   /\ scene' = [parsed EXCEPT !.shadowGenerators = Append(@, Len(parsed.lights))]
                   /\ log' = Append(parsedLog, Entry("info", "shadows", i))
                   /\ attempts' = Attempt("lights", "ok", id)
                \/ \* readJSON of the shadow generator or ShadowGenerator.Parse throws
                   /\ scene' = parsed
                   /\ log' = Append(parsedLog, Entry("error", "light", ObjectObject))
                   /\ attempts' = Attempt("lights", "fail", id)
    /\ StepSpinner
    /\ NextIteration
    /\ UNCHANGED <<project, overlay, parser, files, assets, cache, worker, observers, refreshed,
                   thrown, objectUrls, pipelines>>

LoadCameraAllAtOnce ==
    /\ pc = "cameras"
    /\ LET n == Len(project.cameras)
       IN  /\ scene' = [scene EXCEPT !.cameras =
                           @ \o [k \in 1..n |-> Node(1, None, n + 1 - k)]]
           /\ log' = log \o [k \in 1..n |-> Entry("info", "camera", n + 1 - k)]
           /\ attempts' = [attempts EXCEPT !.cameras =
                              @ \o [k \in 1..n |-> [res |-> "ok", key |-> 1, lods |-> <<>>]]]
           /\ spinnerValue' = spinnerValue + n
           /\ spinner' = spinnerValue + n
    /\ Goto(StepIndex("cameras"), project)
    /\ UNCHANGED <<project, overlay, parser, files, assets, cache, worker, observers, refreshed,
                   thrown, objectUrls, pipelines>>

LoadCameraSpinnerInTry ==
    /\ pc = "cameras"
    /\ \/ /\ log' = Append(log, Entry("error", "camera", i))
          /\ attempts' = Attempt("cameras", "fail", None)
          /\ UNCHANGED <<scene, spinnerValue, spinner>>
       \/ \E id \in NodeIds, parentId \in ParentIds :
            /\ scene' = [scene EXCEPT !.cameras = Append(@, Node(id, parentId, i))]
            /\ log' = Append(log, Entry("info", "camera", i))
            /\ attempts' = Attempt("cameras", "ok", id)
            /\ StepSpinner
    /\ NextIteration
    /\ UNCHANGED <<project, overlay, parser, files, assets, cache, worker, observers, refreshed,
                   thrown, objectUrls, pipelines>>

\* one iteration of the camera loop.  Camera.Parse installs the camera with the
\* parentId of its file as _waitingParentId
LoadCamera ==
    /\ pc = "cameras"
    /\ \/ \* readJSON or Camera.Parse throws
          /\ log' = Append(log, Entry("error", "camera", i))
          /\ attempts' = Attempt("cameras", "fail", None)
          /\ UNCHANGED scene
       \/ \E id \in NodeIds, parentId \in ParentIds :
            /\ scene' = [scene EXCEPT !.cameras = Append(@, Node(id, parentId, i))]
            /\ log' = Append(log, Entry("info", "camera", i))
            /\ attempts' = Attempt("cameras", "ok", id)
    /\ StepSpinner
    /\ NextIteration
    /\ UNCHANGED <<project, overlay, parser, files, assets, cache, worker, observers, refreshed,
                   thrown, objectUrls, pipelines>>

\* ------------------------------------------------- post-processes, cache
\* the pipelines of IProject.postProcesses, in the order the importer parses them
Pipelines == <<"ssao", "standard", "default">>

\* Post-Processes, outside any try: a manifest without them (a legacy project)
\* parses none; otherwise they are parsed in order until one throws
ConfigurePostProcesses ==
    /\ pc = "postProcesses"
    /\ \/ /\ pipelines' \in {{}, {Pipelines[k] : k \in 1..Len(Pipelines)}}
          /\ Goto(StepIndex("postProcesses"), project)
          /\ UNCHANGED <<thrown, refreshed, overlay>>
       \/ \E bad \in 1..Len(Pipelines) :
            /\ pipelines' = {Pipelines[k] : k \in 1..(bad - 1)}
            /\ Throw("postProcesses")
    /\ UNCHANGED <<project, scene, attempts, spinnerValue, spinner, log, parser,
                   files, assets, cache, worker, observers, objectUrls>>

\* Assets.SetCachedData(await readJSON(assets/cache.json)), outside any try
LoadCache ==
    /\ pc = "cache"
    /\ \/ /\ cache' = cache + 1
          /\ Goto(StepIndex("cache"), project)
          /\ UNCHANGED <<thrown, refreshed, overlay>>
       \/ /\ Throw("cache")
          /\ UNCHANGED cache
    /\ UNCHANGED <<project, scene, attempts, spinnerValue, spinner, log, parser,
                   files, assets, worker, observers, objectUrls, pipelines>>

\* -------------------------------------------------------------- parents
\* scene.getNodeByID, the lookup _SetWaitingParent tries first: the first mesh,
\* else light, else camera with the id (the nodes other than transform nodes,
\* for which the importer adds its own fallback)
GetNodeByID(sc, id) ==
    IF FirstWith(sc.meshes, "id", id) # 0 THEN <<"meshes", FirstWith(sc.meshes, "id", id)>>
    ELSE IF FirstWith(sc.lights, "id", id) # 0 THEN <<"lights", FirstWith(sc.lights, "id", id)>>
    ELSE IF FirstWith(sc.cameras, "id", id) # 0 THEN <<"cameras", FirstWith(sc.cameras, "id", id)>>
    ELSE NoNode

\* scene.getTransformNodeByID
GetTransformNodeByID(sc, id) ==
    IF FirstWith(sc.transformNodes, "id", id) # 0
    THEN <<"transformNodes", FirstWith(sc.transformNodes, "id", id)>>
    ELSE NoNode

SetWaitingParentGenericOnly(sc, n) ==
    IF n.wp = None THEN n
    ELSE [n EXCEPT !.par = GetNodeByID(sc, n.wp), !.wp = None]

SetWaitingParentKeepDangling(sc, n) ==
    IF n.wp = None THEN n
    ELSE IF GetNodeByID(sc, n.wp) # NoNode
         THEN [n EXCEPT !.par = GetNodeByID(sc, n.wp), !.wp = None]
    ELSE IF GetTransformNodeByID(sc, n.wp) # NoNode
         THEN [n EXCEPT !.par = GetTransformNodeByID(sc, n.wp), !.wp = None]
    ELSE n

SetWaitingParentTransformFirst(sc, n) ==
    IF n.wp = None THEN n
    ELSE [n EXCEPT !.par = IF GetTransformNodeByID(sc, n.wp) # NoNode
                           THEN GetTransformNodeByID(sc, n.wp)
                           ELSE GetNodeByID(sc, n.wp),
                   !.wp = None]

\* _SetWaitingParent
SetWaitingParent(sc, n) ==
    IF n.wp = None THEN n
    ELSE [n EXCEPT !.par = IF GetNodeByID(sc, n.wp) # NoNode THEN GetNodeByID(sc, n.wp)
                           ELSE GetTransformNodeByID(sc, n.wp),
                   !.wp = None]

\* Parent Ids: the four forEach calls
ResolveParents ==
    /\ pc = "parents"
    /\ scene' = [scene EXCEPT
                   !.meshes = [k \in 1..Len(@) |-> SetWaitingParent(scene, @[k])],
                   !.lights = [k \in 1..Len(@) |-> SetWaitingParent(scene, @[k])],
                   !.cameras = [k \in 1..Len(@) |-> SetWaitingParent(scene, @[k])],
                   !.transformNodes = [k \in 1..Len(@) |-> SetWaitingParent(scene, @[k])]]
    /\ Goto(StepIndex("parents"), project)
    /\ UNCHANGED <<project, attempts, spinnerValue, spinner, log, overlay, parser,
                   files, assets, cache, worker, observers, refreshed, thrown,
                   objectUrls, pipelines>>

\* ---------------------------------------------------------------- ready
RegisterReadyFinally ==
    /\ pc = "ready"
    /\ observers' = observers + 1
    /\ RefreshEditor
    /\ Goto(StepIndex("ready"), project)
    /\ UNCHANGED <<project, scene, attempts, spinnerValue, spinner, log,
                   parser, files, assets, cache, worker, thrown, objectUrls, pipelines>>

RegisterReadyRefreshNow ==
    /\ pc = "ready"
    /\ RefreshEditor
    /\ Goto(StepIndex("ready"), project)
    /\ UNCHANGED <<project, scene, attempts, spinnerValue, spinner, log, observers,
                   parser, files, assets, cache, worker, thrown, objectUrls, pipelines>>

\* scene.onReadyObservable.addOnce(...); scene._checkIsReady()
RegisterReady ==
    /\ pc = "ready"
    /\ observers' = observers + 1
    /\ Goto(StepIndex("ready"), project)
    /\ UNCHANGED <<project, scene, attempts, spinnerValue, spinner, log, overlay,
                   parser, files, assets, cache, worker, refreshed, thrown, objectUrls, pipelines>>

\* the scene reports ready: the one-shot observer runs _RefreshEditor
SceneReady ==
    /\ pc = "waitReady"
    /\ observers > 0
    /\ observers' = observers - 1
    /\ RefreshEditor
    /\ pc' = "done"
    /\ UNCHANGED <<i, steps, project, scene, attempts, spinnerValue, spinner, log,
                   parser, files, assets, cache, worker, thrown, objectUrls, pipelines>>

\* ------------------------------------------------- the meshes component
\* the loop of onDropFiles, from file k on: a file of another extension is
\* passed over, a file whose name no entry has is pushed
RECURSIVE DropFrom(_, _, _)
DropFrom(meshes, dropped, k) ==
    IF k > Len(dropped) THEN meshes
    ELSE DropFrom(
           IF ToLowerCase(Extname(dropped[k])) \notin Extensions THEN meshes
           ELSE IF \E n \in 1..Len(meshes) : meshes[n].name = dropped[k] THEN meshes
           ELSE Append(meshes, MeshFile(dropped[k])),
           dropped, k + 1)

\* the entries of s but entry k (splice(k, 1))
Splice(s, k) == SubSeq(s, 1, k - 1) \o SubSeq(s, k + 1, Len(s))

\* MeshesAssets.onDropFiles; the user reaches the component when no overlay
\* covers the editor
OnDropFiles ==
    /\ overlay = "hidden"
    /\ Len(assets.meshes) < MaxAssets
    /\ \E dropped \in SeqsUpTo(AssetNames, MaxDropped) \ {<<>>} :
          assets' = Refresh([assets EXCEPT !.meshes = DropFrom(@, dropped, 1)])
    /\ UNCHANGED <<pc, i, steps, project, scene, attempts, spinnerValue, spinner, log,
                   overlay, parser, files, cache, worker, observers, refreshed, thrown,
                   objectUrls, pipelines>>

\* _handleRemoveMesh of an item: undoRedo.push runs redo (the entry with the
\* path of the item and the item are spliced out) and common (refresh)
HandleRemoveMesh ==
    /\ overlay = "hidden"
    /\ Len(assets.removed) < MaxRemoved
    /\ \E n \in 1..Len(assets.items) :
          LET item == assets.items[n]
              meshIndex == FirstWith(assets.meshes, "path", item.key)
          IN  assets' = Refresh([assets EXCEPT
                           !.meshes = IF meshIndex # 0 THEN Splice(@, meshIndex) ELSE @,
                           !.items = Splice(@, n),
                           !.removed = Append(@, item)])
    /\ UNCHANGED <<pc, i, steps, project, scene, attempts, spinnerValue, spinner, log,
                   overlay, parser, files, cache, worker, observers, refreshed, thrown,
                   objectUrls, pipelines>>

\* the undo of the last removal: the entry and the item are pushed back, then
\* common (refresh)
UndoRemoveMesh ==
    /\ overlay = "hidden"
    /\ assets.removed # <<>>
    /\ Len(assets.meshes) < MaxAssets
    /\ LET item == assets.removed[Len(assets.removed)]
       IN  assets' = Refresh([assets EXCEPT
                        !.meshes = Append(@, [name |-> item.id, path |-> item.key]),
                        !.items = Append(@, item),
                        !.removed = SubSeq(@, 1, Len(@) - 1)])
    /\ UNCHANGED <<pc, i, steps, project, scene, attempts, spinnerValue, spinner, log,
                   overlay, parser, files, cache, worker, observers, refreshed, thrown,
                   objectUrls, pipelines>>

\* ------------------------------------------- offscreen assets worker
\* ev.data.id: the ids of the switch and one it has no case for
MessageIds == {"init", "reset", "getScreenshot", "createMesh", "importMesh",
               "setMaterial", "disposeMaterial", "other"}

\* ev.data.type of a createMesh message: the sphere, or a type without a case
MeshTypes == {0, 1}

\* postMessage({ id, response }) and postMessage({ id, error: true }), with the
\* message the listener posts it for
Reply(k, id, response) == [to |-> k, id |-> id, response |-> response, error |-> FALSE]
ErrorReply(k, id) == [to |-> k, id |-> id, response |-> FALSE, error |-> TRUE]

\* the listener ran to the end of its try block, or to the end of its catch
Answered(w, id, response) ==
    [w EXCEPT !.handlers = Append(@, [id |-> id, at |-> "completed"]),
              !.posted = Append(@, Reply(Len(w.handlers) + 1, id, response))]

AnsweredError(w, id) ==
    [w EXCEPT !.handlers = Append(@, [id |-> id, at |-> "threw"]),
              !.posted = Append(@, ErrorReply(Len(w.handlers) + 1, id))]

\* the listener stopped at an await
Suspended(w, id, what) == [w EXCEPT !.handlers = Append(@, [id |-> id, at |-> what])]

\* the listener, from the arrival of a message to its first await or its end
OnMessage ==
    /\ Len(worker.handlers) < MaxMessages
    /\ \E id \in MessageIds :
         \/ /\ id = "init"
            /\ \/ \* new OffscreenAssetsHelper(canvas)
                  worker' = Answered([worker EXCEPT !.instance = TRUE, !.mesh = FALSE],
                                       id, FALSE)
               \/ \* the constructor throws: _Instance is not assigned
                  worker' = AnsweredError(worker, id)
         \/ /\ id = "other"
            /\ worker' = Answered(worker, id, FALSE)
         \/ /\ id \notin {"init", "other"}
            /\ ~worker.instance
            \* a method of undefined is read
            /\ worker' = AnsweredError(worker, id)
         \/ /\ id \in {"reset", "disposeMaterial"}
            /\ worker.instance
            /\ worker' = Answered(worker, id, FALSE)
         \/ /\ id = "createMesh"
            /\ worker.instance
            /\ \E type \in MeshTypes :
                 worker' = Answered([worker EXCEPT !.mesh = (@ \/ type = 0)], id, FALSE)
         \/ /\ id = "setMaterial"
            /\ worker.instance
            /\ \/ worker' = Answered(worker, id, FALSE)
               \/ \* Material.Parse throws on the json
                  /\ worker.mesh
                  /\ worker' = AnsweredError(worker, id)
         \/ /\ id = "getScreenshot"
            /\ worker.instance
            /\ worker' = Suspended(worker, id, "screenshot")
         \/ /\ id = "importMesh"
            /\ worker.instance
            /\ worker' = Suspended(worker, id, "import")
    /\ UNCHANGED <<pc, i, steps, project, scene, attempts, spinnerValue, spinner, log,
                   overlay, parser, files, assets, cache, observers, refreshed, thrown,
                   objectUrls, pipelines>>

\* the callback getScreenshot added to scene.onReadyObservable runs for the
\* message k: it resolves the promise the listener awaits, and the listener
\* posts the screenshot; or the callback throws (scene.render, convertToBlob)
\* or the blob is not read, and nothing settles the promise any more
ScreenshotCallback ==
    /\ \E k \in 1..Len(worker.handlers) :
         /\ worker.handlers[k].at = "screenshot"
         /\ \/ worker' = [worker EXCEPT
                             !.handlers[k].at = "completed",
                             !.posted = Append(@, Reply(k, worker.handlers[k].id, TRUE))]
            \/ worker' = [worker EXCEPT !.handlers[k].at = "abandoned"]
    /\ UNCHANGED <<pc, i, steps, project, scene, attempts, spinnerValue, spinner, log,
                   overlay, parser, files, assets, cache, observers, refreshed, thrown,
                   objectUrls, pipelines>>

\* SceneLoader.ImportMeshAsync settles for the message k: the listener goes on
\* to the end of its try block, or the rejection takes it to its catch
ImportMeshSettled ==
    /\ \E k \in 1..Len(worker.handlers) :
         /\ worker.handlers[k].at = "import"
         /\ \/ worker' = [worker EXCEPT
                             !.handlers[k].at = "completed",
                             !.posted = Append(@, Reply(k, worker.handlers[k].id, FALSE))]
            \/ worker' = [worker EXCEPT
                             !.handlers[k].at = "threw",
                             !.posted = Append(@, ErrorReply(k, worker.handlers[k].id))]
    /\ UNCHANGED <<pc, i, steps, project, scene, attempts, spinnerValue, spinner, log,
                   overlay, parser, files, assets, cache, observers, refreshed, thrown,
                   objectUrls, pipelines>>

Next ==
    \/ ReadManifest
    \/ RegisterFiles
    \/ ImportSceneSettings
    \/ ConfigureCamera
    \/ LoadMesh
    \/ LoadTransformNode
    \/ PhysicsImpostors
    \/ LoadMaterial
    \/ LoadTexture
    \/ LoadLight
    \/ LoadCamera
    \/ ConfigurePostProcesses
    \/ LoadCache
    \/ ResolveParents
    \/ RegisterReady
    \/ SceneReady

Spec == Init /\ [][Next]_vars

\* the imports in which every awaited promise settles and the scene reports
\* ready: a step that can be taken is taken
SpecLive == Init /\ [][Next]_vars /\ WF_vars(Next)

\* the imports of manifests of materials and textures, up to MaxPerList of each
NextMaterials ==
    \/ ReadMaterialManifest
    \/ RegisterFiles
    \/ ImportSceneSettings
    \/ ConfigureCamera
    \/ PhysicsImpostors
    \/ LoadMaterial
    \/ LoadTexture
    \/ ConfigurePostProcesses
    \/ LoadCache
    \/ ResolveParents
    \/ RegisterReady
    \/ SceneReady

SpecMaterials == Init /\ [][NextMaterials]_vars

\* the imports of manifests of meshes, up to MaxPerList, of up to MaxLods LODs
NextMeshes ==
    \/ ReadMeshManifest
    \/ RegisterFiles
    \/ ImportSceneSettings
    \/ ConfigureCamera
    \/ LoadMeshLods
    \/ PhysicsImpostors
    \/ ConfigurePostProcesses
    \/ LoadCache
    \/ ResolveParents
    \/ RegisterReady
    \/ SceneReady

SpecMeshes == Init /\ [][NextMeshes]_vars

\* the imports of manifests of one mesh without LODs and up to MaxPerList
\* materials that embed no texture
NextBinding ==
    \/ ReadBindingManifest
    \/ RegisterFiles
    \/ ImportSceneSettings
    \/ ConfigureCamera
    \/ LoadMeshPlain
    \/ PhysicsImpostors
    \/ LoadMaterialPlain
    \/ ConfigurePostProcesses
    \/ LoadCache
    \/ ResolveParents
    \/ RegisterReady
    \/ SceneReady

SpecBinding == Init /\ [][NextBinding]_vars

\* the meshes component before and after the import of a manifest without
\* entities
NextAssets ==
    \/ ReadAssetsManifest
    \/ RegisterFiles
    \/ ImportSceneSettings
    \/ ConfigureCamera
    \/ PhysicsImpostors
    \/ ConfigurePostProcesses
    \/ LoadCache
    \/ ResolveParents
    \/ RegisterReady
    \/ SceneReady
    \/ OnDropFiles
    \/ HandleRemoveMesh
    \/ UndoRemoveMesh

SpecAssets == Init /\ [][NextAssets]_vars

\* the offscreen assets worker and the messages the editor sends it
NextWorker ==
    \/ OnMessage
    \/ ScreenshotCallback
    \/ ImportMeshSettled

SpecWorker == Init /\ [][NextWorker]_vars

\* the imports of manifests of at most one entity, with any filesList
NextFiles ==
    \/ ReadFilesManifest
    \/ RegisterFiles
    \/ ImportSceneSettings
    \/ ConfigureCamera
    \/ LoadMesh
    \/ LoadTransformNode
    \/ PhysicsImpostors
    \/ LoadMaterial
    \/ LoadTexture
    \/ LoadLight
    \/ LoadCamera
    \/ ConfigurePostProcesses
    \/ LoadCache
    \/ ResolveParents
    \/ RegisterReady
    \/ SceneReady

SpecFiles == Init /\ [][NextFiles]_vars

\* ================================================================ claims
IsPrefix(s, t) == Len(s) <= Len(t) /\ SubSeq(t, 1, Len(s)) = s

AllAttempted(l) == Len(attempts[l]) = Len(project[l])

Completed == pc \in {"waitReady", "done"}

Failed(l) == Cardinality({k \in 1..Len(attempts[l]) : attempts[l][k].res = "fail"})

CountLevel(lg, level) == Cardinality({k \in 1..Len(lg) : lg[k].level = level})

Errors(tag) ==
    Cardinality({k \in 1..Len(log) : log[k].level = "error" /\ log[k].tag = tag})

TexturesWithUid(u) == {k \in 1..Len(scene.textures) : scene.textures[k].uid = u}

NodeLists == {"meshes", "transformNodes", "lights", "cameras"}
NodeRefs == UNION {{<<l, k>> : k \in 1..Len(scene[l])} : l \in NodeLists}
NodeAt(r) == scene[r[1]][r[2]]
HasId(id) == \E r \in NodeRefs : NodeAt(r).id = id

\* ---- C1
StatedOrder ==
    <<"files", "sceneSettings", "cameraSettings", "meshes", "transformNodes",
      "physics", "materials", "textures", "lights", "cameras", "postProcesses",
      "cache", "parents", "ready">>
LoopOrder == <<"meshes", "transformNodes", "materials", "textures", "lights", "cameras">>

\* the entities in the scene that the loop of list l itself installed
InstalledBy(l) ==
    IF l = "textures"
    THEN Cardinality({k \in 1..Len(scene.textures) : scene.textures[k].src = "textures"})
    ELSE Len(scene[l])

\* C1, as amended: the steps started so far are always a prefix of the stated
\* order, and no entity that the loop of a later list installs is in the scene
\* before every entry of each earlier list has been attempted (a texture that a
\* material definition embeds is installed by the material step instead).
C1_StepOrder ==
    /\ IsPrefix(steps, StatedOrder)
    /\ \A a \in 1..Len(LoopOrder), b \in 1..Len(LoopOrder) :
          (a < b /\ InstalledBy(LoopOrder[b]) > 0) => AllAttempted(LoopOrder[a])

\* C1, as stated: no entity of the kind of a later step (a texture included) is
\* in the scene before every entry of each earlier list has been attempted.
C1_Original ==
    /\ IsPrefix(steps, StatedOrder)
    /\ \A a \in 1..Len(LoopOrder), b \in 1..Len(LoopOrder) :
          (a < b /\ Len(scene[LoopOrder[b]]) > 0) => AllAttempted(LoopOrder[a])

C1_Witness ==
    /\ pc = "done"
    /\ steps = StatedOrder
    /\ Len(scene.materials) = 1
    /\ InstalledBy("textures") = 1

\* ---- C2
\* C2, as amended: whenever a material entry is about to be processed every
\* mesh entry of the manifest has been attempted and the iteration leaves the
\* number of scene meshes as it is; that number is non-zero exactly when the
\* import of some mesh file installed its mesh.
C2_MeshSetStable ==
    [][pc = "materials" =>
         /\ AllAttempted("meshes")
         /\ Len(scene'.meshes) = Len(scene.meshes)
         /\ (Len(scene.meshes) > 0
               <=> \E k \in 1..Len(attempts.meshes) : attempts.meshes[k].key # None)]_vars

\* C2, as stated: ... and the number of scene meshes is stable and non-zero.
C2_Original ==
    [][pc = "materials" =>
         /\ AllAttempted("meshes")
         /\ Len(scene'.meshes) = Len(scene.meshes)
         /\ Len(scene.meshes) > 0]_vars

C2_Witness ==
    /\ pc = "materials"
    /\ Len(project.meshes) = 1
    /\ Len(scene.meshes) > 0

\* ---- C3
Tag(l) == CASE l = "meshes" -> "mesh"
            [] l = "transformNodes" -> "transformNode"
            [] l = "materials" -> "material"
            [] l = "textures" -> "texture"
            [] l = "lights" -> "light"
            [] l = "cameras" -> "camera"

\* the failures that are not the failure of an entity: a step outside any try threw
InputFailures == {"manifest", "sceneSettings", "cameraSettings", "postProcesses", "cache"}

\* entry k of list l, attempted without a failure, is live in the scene
Installed(l, k) ==
    CASE l = "textures" ->
           \E j \in 1..Len(scene.textures) : scene.textures[j].uid = attempts[l][k].key
      [] l = "meshes" ->
           \E j \in 1..Len(scene.meshes) :
              scene.meshes[j].src = k /\ scene.meshes[j].lodOf = 0
      [] OTHER ->
           \E j \in 1..Len(scene[l]) : scene[l][j].src = k

\* C3: when exactly one entry of a list failed to load and no step outside the
\* entity loops threw, the import is not aborted, the loop of that list logged
\* exactly one error, every other entry attempted is live in the scene, and a
\* completed import has started every step and attempted every entry.
C3_Isolation ==
    \A l \in Lists :
       (Failed(l) = 1 /\ thrown \notin InputFailures) =>
          /\ pc # "returned"
          /\ Errors(Tag(l)) = 1
          /\ \A k \in 1..Len(attempts[l]) :
                attempts[l][k].res # "fail" => Installed(l, k)
          /\ Completed => (steps = StatedOrder /\ \A m \in Lists : AllAttempted(m))

C3_Witness ==
    /\ pc = "done"
    /\ Len(attempts.meshes) = 2
    /\ attempts.meshes[1].res = "fail"
    /\ attempts.meshes[2].res = "ok"
    /\ Installed("meshes", 2)

\* ---- C4
ProgressLists == {"textures", "materials", "meshes", "lights", "cameras"}

\* C4: once every texture, material, mesh, light and camera of the manifest has
\* been attempted, the value given to Overlay.SetSpinnervalue is T+M+K+L+C units.
C4_ProgressComplete ==
    (steps # <<>> /\ \A l \in ProgressLists : AllAttempted(l))
       => spinner = TotalUnits(project)

\* ---- C5
SameKey(j, k) ==
    /\ j < k
    /\ attempts.textures[j].key # None
    /\ attempts.textures[j].key = attempts.textures[k].key
    /\ attempts.textures[j].res \in {"ok", "skip"}

C7_ResourceIdentity ==
    /\ \A a \in 1..Len(scene.materials), b \in 1..Len(scene.materials) :
          a < b => scene.materials[a].id # scene.materials[b].id
    /\ \A a \in 1..Len(scene.meshes), b \in 1..Len(scene.meshes) :
          (a < b /\ scene.meshes[a].lodOf = 0 /\ scene.meshes[b].lodOf = 0)
             => scene.meshes[a].id # scene.meshes[b].id

\* ---- C8
\* C8: an iteration of the material loop that parses its material sets it on
\* the mesh of every bound id that resolves, logs one warning per bound id that
\* does not and no error, keeps the material in the scene, advances the
\* progress and goes on with the next material (or the next step).
C8_BindingWarning ==
    [][(pc = "materials" /\ Len(scene'.materials) = Len(scene.materials) + 1) =>
         LET mat == Len(scene'.materials)
             bm == scene'.materials[mat].bm
             missing == {k \in 1..Len(bm) : GetMeshByID(scene, bm[k]) = 0}
         IN  /\ \A k \in (1..Len(bm)) \ missing :
                   scene'.meshes[GetMeshByID(scene, bm[k])].mat = mat
             /\ CountLevel(log', "warning") = CountLevel(log, "warning") + Cardinality(missing)
             /\ CountLevel(log', "error") = CountLevel(log, "error")
             /\ attempts'.materials[i].res = "ok"
             /\ spinner' = spinner + 1
             /\ IF i < Len(project.materials)
                THEN pc' = "materials" /\ i' = i + 1
                ELSE pc' # "returned"]_vars

C8_Witness ==
    /\ Len(scene.materials) = 1
    /\ scene.materials[1].bm = <<DanglingId, 1>>
    /\ Len(scene.meshes) > 0
    /\ scene.meshes[1].mat = 1
    /\ CountLevel(log, "warning") = 1

\* ---- C9
\* C9: when the import completes, a node whose file declares as parentId the id
\* of a node of the scene, the only node with that id, has that node as parent,
\* whatever the order and the lists the two were loaded in.
C9_DeferredLinking ==
    Completed =>
       \A c \in NodeRefs, p \in NodeRefs :
          (/\ NodeAt(c).decl # None
           /\ NodeAt(p).id = NodeAt(c).decl
           /\ \A q \in NodeRefs : NodeAt(q).id = NodeAt(p).id => q = p)
             => NodeAt(c).par = p

C9_Witness ==
    /\ Completed
    /\ Len(scene.meshes) = 2
    /\ scene.meshes[1].src = 1
    /\ scene.meshes[2].src = 2
    /\ scene.meshes[1].decl = scene.meshes[2].id
    /\ scene.meshes[1].id # scene.meshes[2].id
    /\ scene.meshes[1].par = <<"meshes", 2>>

\* ---- C10
\* C10: the parent step leaves no waiting id on any node; a node whose waiting
\* id names no node of the scene gets parent null, every node whose waiting id
\* names one gets a parent; the step logs nothing, throws nothing and is
\* followed by the registration of the scene-ready callback.
C10_DanglingParent ==
    [][pc = "parents" =>
         /\ log' = log
         /\ thrown' = "none"
         /\ pc' = "ready"
         /\ \A r \in NodeRefs :
               /\ scene'[r[1]][r[2]].wp = None
               /\ (NodeAt(r).wp # None /\ ~HasId(NodeAt(r).wp))
                     => scene'[r[1]][r[2]].par = NoNode
               /\ (NodeAt(r).wp # None /\ HasId(NodeAt(r).wp))
                     => scene'[r[1]][r[2]].par # NoNode]_vars

C10_Witness ==
    /\ pc = "done"
    /\ \E r \in NodeRefs, q \in NodeRefs :
          /\ NodeAt(r).decl = DanglingId
          /\ NodeAt(r).par = NoNode
          /\ NodeAt(r).wp = None
          /\ NodeAt(q).par # NoNode

\* ---- C11
\* ImportProject has returned: its catch ran, or _ImportProject ran to its end
Returned == pc \in {"returned", "waitReady", "done"}

\* C11: when ImportProject has returned by any path after the manifest was
\* read, no mesh, light, camera or transform node of the scene still carries a
\* waiting parent id.
C11_NoWaitingParentLeft ==
    (Returned /\ thrown # "manifest") =>
       \A r \in NodeRefs : NodeAt(r).wp = None

\* ---- C12
\* C12: no failure of a step after the manifest read escapes to the catch of
\* ImportProject, and an import that has returned after the manifest was read
\* has started every step and attempted every entry.
C12_OnlyManifestAborts ==
    /\ thrown \in {"none", "manifest"}
    /\ (Returned /\ thrown # "manifest") =>
          (steps = StatedOrder /\ \A l \in Lists : AllAttempted(l))

\* ---- C13
\* C13: when the manifest read fails, the error does not leave ImportProject:
\* its catch runs _RefreshEditor (one refresh, the overlay hidden) and the call
\* returns; no entity is in the scene and the file registry and the asset lists
\* are as they were before the call.
C13_ManifestFailure ==
    [][(pc = "idle" /\ thrown' = "manifest") =>
         /\ pc' = "returned"
         /\ refreshed' = refreshed + 1
         /\ overlay' = "hidden"
         /\ scene' = scene /\ scene' = EmptyScene
         /\ files' = files
         /\ assets' = assets
         /\ log' = log]_vars

C13_Witness ==
    /\ pc = "returned"
    /\ thrown = "manifest"
    /\ refreshed = 1
    /\ overlay = "hidden"
    /\ scene = EmptyScene
    /\ files = EmptyRegistry

\* ---- C14
\* C14: on an import from which no error escaped, _RefreshEditor runs only as
\* the one-shot observer of scene.onReadyObservable, when that observable fires;
\* the observer is registered once, in the last step, after every entry has
\* been attempted and the parent step has left no waiting id.
C14_RefreshWhenSceneReady ==
    [][/\ (refreshed' # refreshed /\ thrown' = "none") =>
             /\ pc = "waitReady" /\ pc' = "done"
             /\ observers = 1 /\ observers' = 0
             /\ refreshed' = 1
       /\ observers' > observers =>
             /\ pc = "ready"
             /\ observers' = 1
             /\ refreshed' = 0
             /\ steps = StatedOrder
             /\ \A l \in Lists : AllAttempted(l)
             /\ \A r \in NodeRefs : NodeAt(r).wp = None]_vars

C14_Witness ==
    /\ pc = "done"
    /\ thrown = "none"
    /\ refreshed = 1
    /\ observers = 0
    /\ overlay = "hidden"
    /\ Len(scene.meshes) = 1
    /\ Len(scene.cameras) = 1

\* ---- C15
\* C15: every entry of a list whose load failed has an error in the console that
\* carries the kind of the list and the name of the entry as the manifest
\* gives it.
C15_ErrorNamesEntity ==
    \A l \in Lists :
       \A k \in 1..Len(attempts[l]) :
          attempts[l][k].res = "fail" =>
             \E e \in 1..Len(log) :
                log[e] = Entry("error", Tag(l), project[l][k])

\* ---- C16
\* C16: an iteration of the mesh, material, texture, light or camera loop whose
\* load throws logs exactly one error, then passes to Overlay.SetSpinnervalue a
\* progress value one spinnerStep higher, and goes on with the next entry of
\* the list (after the last entry, with the next step).
C16_FailureAdvancesProgress ==
    [][(/\ pc \in ProgressLists
        /\ Len(attempts'[pc]) = Len(attempts[pc]) + 1
        /\ attempts'[pc][i].res = "fail") =>
          /\ CountLevel(log', "error") = CountLevel(log, "error") + 1
          /\ spinnerValue' = spinnerValue + 1
          /\ spinner' = spinnerValue'
          /\ thrown' = "none"
          /\ IF i < Len(project[pc])
             THEN pc' = pc /\ i' = i + 1
             ELSE pc' \notin {pc, "returned"} /\ i' = 1]_vars

C16_Witness ==
    /\ pc = "done"
    /\ Len(attempts.cameras) = 2
    /\ attempts.cameras[1].res = "fail"
    /\ attempts.cameras[2].res = "ok"
    /\ spinner = 2
    /\ Errors("camera") = 1

\* ---- C17
\* C17: an iteration of the mesh loop whose mesh file has a LOD descriptor that
\* fails to parse logs one LOD error per such descriptor and no mesh error,
\* installs the base mesh, attaches to it one LOD level per descriptor that
\* parsed to a mesh, at the distance of that descriptor, and counts as a
\* successful load of the mesh.
C17_LodIsolation ==
    [][(/\ pc = "meshes"
        /\ Len(attempts'.meshes) = Len(attempts.meshes) + 1
        /\ \E k \in 1..Len(attempts'.meshes[i].lods) :
              attempts'.meshes[i].lods[k] = "throws") =>
          LET lods == attempts'.meshes[i].lods
              base == Len(scene.meshes) + 1
              levels == {m \in 1..Len(scene'.meshes) : scene'.meshes[m].lodOf = base}
          IN  /\ attempts'.meshes[i].res = "ok"
              /\ Len(scene'.meshes) >= base
              /\ scene'.meshes[base].src = i
              /\ scene'.meshes[base].lodOf = 0
              /\ \A k \in 1..Len(lods) :
                    Cardinality({m \in levels : scene'.meshes[m].dist = k})
                       = IF lods[k] = "ok" THEN 1 ELSE 0
              /\ Cardinality({e \in 1..Len(log') :
                                 log'[e] = Entry("error", "lod", i)})
                    = Cardinality({e \in 1..Len(log) : log[e] = Entry("error", "lod", i)})
                      + Cardinality({k \in 1..Len(lods) : lods[k] = "throws"})
              /\ \A e \in 1..Len(log') : log'[e] # Entry("error", "mesh", i)
              /\ pc' # "returned"]_vars

C17_Witness ==
    /\ pc = "done"
    /\ Len(attempts.meshes) = 1
    /\ attempts.meshes[1].res = "ok"
    /\ attempts.meshes[1].lods = <<"throws", "ok">>
    /\ Len(scene.meshes) = 2
    /\ scene.meshes[2].lodOf = 1
    /\ scene.meshes[2].dist = 2
    /\ Errors("lod") = 1

\* ---- C18
\* C18: Assets.SetCachedData is called at most once in an import, by the cache
\* step only, after every entry of every list has been attempted and the
\* post-process step is over; an import that runs to its end has read
\* assets/cache.json and installed it exactly once.
C18_CacheReadOnce ==
    [][/\ cache' # cache =>
             /\ pc = "cache"
             /\ cache = 0 /\ cache' = 1
             /\ \A l \in Lists : AllAttempted(l)
             /\ \E k \in 1..Len(steps) : steps[k] = "postProcesses"
             /\ thrown' = "none"
       /\ pc = "cache" => (cache' # cache \/ thrown' = "cache")
       /\ pc' \in {"waitReady", "done"} => cache' = 1]_vars

C18_Witness ==
    /\ pc = "parents"
    /\ cache = 1
    /\ Len(scene.lights) = 1
    /\ Len(attempts.textures) = 1
    /\ pipelines # {}

\* ---- C19
\* the key of entry k of the manifest's filesList: join(DirPath, "files", f)
FileKey(k) == Join(DirPath, <<"files">>, project.filesList[k])

\* C19, as amended: the registration step, which runs before any entity is
\* attempted, leaves under the key of every entry f of filesList a record whose
\* path is the key and whose name is the basename of the last entry of
\* filesList that joins to that key, which is basename(f) when no other
\* entry joins to it; no later step of the import changes the registry.
C19_FilesRegistered ==
    [][/\ pc = "files" =>
             /\ scene = EmptyScene
             /\ \A l \in Lists : attempts[l] = <<>>
             /\ \A k \in 1..Len(project.filesList) :
                   /\ FileKey(k) \in DOMAIN files'
                   /\ files'[FileKey(k)].path = FileKey(k)
                   /\ \E j \in k..Len(project.filesList) :
                         /\ FileKey(j) = FileKey(k)
                         /\ \A n \in (j + 1)..Len(project.filesList) : FileKey(n) # FileKey(k)
                         /\ files'[FileKey(k)].name = Basename(project.filesList[j])
                   /\ (\A j \in 1..Len(project.filesList) : FileKey(j) = FileKey(k) => j = k)
                         => files'[FileKey(k)].name = Basename(project.filesList[k])
       /\ pc \notin {"idle", "files"} => files' = files]_vars

\* C19, as stated: ... a record whose path is the key and whose name is
\* basename(f), for every entry f of filesList.
C19_Original ==
    [][/\ pc = "files" =>
             /\ scene = EmptyScene
             /\ \A l \in Lists : attempts[l] = <<>>
             /\ \A k \in 1..Len(project.filesList) :
                   /\ FileKey(k) \in DOMAIN files'
                   /\ files'[FileKey(k)].path = FileKey(k)
                   /\ files'[FileKey(k)].name = Basename(project.filesList[k])
       /\ pc \notin {"idle", "files"} => files' = files]_vars

C19_Witness ==
    /\ pc = "done"
    /\ Len(scene.meshes) = 1
    /\ project.filesList = <<<<"a", "a">>, <<".", "a">>>>
    /\ DOMAIN files = {<<"project", "files", "a", "a">>, <<"project", "files", "a">>}
    /\ files[<<"project", "files", "a", "a">>].name = "a"
    /\ files[<<"project", "files", "a">>].path = <<"project", "files", "a">>

\* ---- C20
\* C20: an iteration of the transform-node loop, the post-process step and the
\* cache step leave the progress value as it is, whether they succeed or fail;
\* the manifest, and with it the denominator |textures| + |materials| +
\* |meshes| + |lights| + |cameras|, does not change once read, and the
\* progress value counts the entries of these five lists that went through
\* the spinner update, never more than the denominator.
C20_ProgressFrame ==
    [][/\ pc \in {"transformNodes", "postProcesses", "cache"} =>
             /\ spinnerValue' = spinnerValue
             /\ spinner' = spinner
       /\ pc # "idle" =>
             /\ project' = project
             /\ TotalUnits(project') = TotalUnits(project)
       /\ spinnerValue' <= TotalUnits(project')
       /\ spinnerValue' =
             Cardinality({<<l, k>> \in ProgressLists \X (1..MaxPerList) :
                            /\ k <= Len(attempts'[l])
                            /\ attempts'[l][k].res # "skip"})]_vars

C20_Witness ==
    /\ pc = "done"
    /\ Len(attempts.transformNodes) = 1
    /\ attempts.transformNodes[1].res = "fail"
    /\ Len(attempts.meshes) = 1
    /\ pipelines # {}
    /\ cache = 1
    /\ spinner = 1

\* ---- C21
\* C21: the parent step gives every node that carries a waiting id the node
\* scene.getNodeByID finds for that id when there is one, whether or not a
\* transform node carries the id too, else the transform node
\* scene.getTransformNodeByID finds, else no parent, and deletes the waiting
\* id; a node without a waiting id is left exactly as it was.
C21_TwoTierLookup ==
    [][pc = "parents" =>
         \A r \in NodeRefs :
            LET n == NodeAt(r)
                after == scene'[r[1]][r[2]]
            IN  IF n.wp = None THEN after = n
                ELSE /\ after.wp = None
                     /\ after = [n EXCEPT !.wp = None, !.par = after.par]
                     /\ GetNodeByID(scene, n.wp) # NoNode
                           => after.par = GetNodeByID(scene, n.wp)
                     /\ GetNodeByID(scene, n.wp) = NoNode
                           => after.par = GetTransformNodeByID(scene, n.wp)
                     /\ after.par # NoNode
                           => scene[after.par[1]][after.par[2]].id = n.wp]_vars

C21_Witness ==
    /\ pc = "done"
    /\ Len(scene.meshes) = 1
    /\ Len(scene.transformNodes) = 1
    /\ scene.meshes[1].id = scene.transformNodes[1].id
    /\ scene.transformNodes[1].decl = scene.meshes[1].id
    /\ scene.transformNodes[1].par = <<"meshes", 1>>
    /\ scene.transformNodes[1].wp = None
    /\ scene.meshes[1].decl = None
    /\ scene.meshes[1].par = NoNode

\* ---- C22
\* C22: every step of an entity loop is the whole load of one entry, the next
\* one in list order: it records the outcome of entry i and of no other entry,
\* what it logs names entry i (or, for a failed light, the entry object), what
\* it installs comes from entry i, and it is followed by the load of entry
\* i + 1 of the same list or, after the last entry, by the next step.
C22_OneAtATime ==
    [][(pc \in Lists) =>
         /\ i = Len(attempts[pc]) + 1
         /\ Len(attempts'[pc]) = i
         /\ attempts' = [attempts EXCEPT ![pc] = Append(@, attempts'[pc][i])]
         /\ \A e \in (Len(log) + 1)..Len(log') :
               log'[e].name \in {project[pc][i], ObjectObject}
         /\ \A l \in NodeLists \cup {"materials"} :
               /\ Len(scene'[l]) >= Len(scene[l])
               /\ \A k \in (Len(scene[l]) + 1)..Len(scene'[l]) :
                     /\ l = pc
                     /\ scene'[l][k].src \in {i, 0}
         /\ IF i < Len(project[pc])
            THEN pc' = pc /\ i' = i + 1
            ELSE pc' # pc /\ i' = 1]_vars

C22_Witness ==
    /\ pc = "done"
    /\ Len(scene.lights) = 2
    /\ scene.lights[1].src = 1
    /\ scene.lights[2].src = 2
    /\ scene.shadowGenerators = <<1, 2>>
    /\ log = <<Entry("info", "light", 1), Entry("info", "shadows", 1),
               Entry("info", "light", 2), Entry("info", "shadows", 2)>>

\* ---- C23
\* the materials of the scene, single or multi, that list an id of mesh m
Binders(m) ==
    {k \in 1..Len(scene.materials) :
        \E j \in 1..Len(scene.materials[k].bm) :
           GetMeshByID(scene, scene.materials[k].bm[j]) = m}

\* C23: once the material loop is over, whatever the isMultiMaterial flag of
\* the parsed materials, a mesh that the bound ids of some parsed material
\* resolve to has as material the last parsed material of the manifest that
\* lists it, and a mesh no parsed material lists has none.
C23_SameBindingStep ==
    (steps # <<>> /\ AllAttempted("materials")) =>
       \A m \in 1..Len(scene.meshes) :
          IF Binders(m) = {} THEN scene.meshes[m].mat = 0
          ELSE /\ scene.meshes[m].mat \in Binders(m)
               /\ \A k \in Binders(m) : k <= scene.meshes[m].mat

C23_Witness ==
    /\ pc = "done"
    /\ Len(scene.meshes) = 1
    /\ Len(scene.materials) = 2
    /\ ~scene.materials[1].multi
    /\ scene.materials[2].multi
    /\ Binders(1) = {1, 2}
    /\ scene.meshes[1].mat = 2

\* ---- C24
\* C24: a mesh or light entry whose load was reported as an error has no
\* object in the scene, so that the meshes loaded from files and the lights of
\* the scene are those of the entries not reported as errors.
C24_FailedLeavesNothing ==
    \A l \in {"meshes", "lights"} :
       \A k \in 1..Len(attempts[l]) :
          attempts[l][k].res = "fail" =>
             \A n \in 1..Len(scene[l]) : scene[l][n].src # k

\* ---- C25
\* C25: when ImportMesh has returned, that is between the steps of the mesh
\* loop and ever after, no object URL created for a LOD blob is left unrevoked.
C25_ObjectUrlsRevoked == objectUrls = 0

\* ---- C26
\* C26: _RefreshEditor never runs twice in an import: not at all while
\* _ImportProject is running, once (from the catch of ImportProject, no observer
\* being registered) when an error left _ImportProject, and once (from the
\* scene-ready observer) when the import completed; and, the scene reporting
\* ready in the end, the overlay shown at the start is eventually hidden.
C26_RefreshExactlyOnce ==
    /\ [](/\ refreshed <= 1
          /\ pc = "returned" => (refreshed = 1 /\ thrown # "none" /\ observers = 0
                                   /\ overlay = "hidden")
          /\ pc = "done" => (refreshed = 1 /\ thrown = "none" /\ observers = 0
                               /\ overlay = "hidden")
          /\ pc \notin {"returned", "done"} => (refreshed = 0 /\ thrown = "none"))
    /\ (overlay = "shown") ~> (overlay = "hidden" /\ refreshed = 1)

C26_Witness ==
    /\ pc = "returned"
    /\ thrown = "postProcesses"
    /\ refreshed = 1
    /\ overlay = "hidden"
    /\ observers = 0
    /\ Len(scene.meshes) = 1

\* ---- C27
\* C27: MeshesAssets.Meshes never holds two entries with the same name.
C27_UniqueAssetNames ==
    \A a \in 1..Len(assets.meshes), b \in 1..Len(assets.meshes) :
       a < b => assets.meshes[a].name # assets.meshes[b].name

\* ---- C28
\* the replies the worker posted for the message k
RepliesTo(k) == {n \in 1..Len(worker.posted) : worker.posted[n].to = k}

\* C28: the worker answers every message with exactly one reply carrying the
\* id of the message, without the error flag when the handler completed and
\* with error: true when it threw; no message whose handler can take no
\* further step is left without a reply.
C28_EveryMessageAnswered ==
    \A k \in 1..Len(worker.handlers) :
       LET h == worker.handlers[k]
       IN  /\ Cardinality(RepliesTo(k)) <= 1
           /\ \A n \in RepliesTo(k) :
                 /\ worker.posted[n].id = h.id
                 /\ worker.posted[n].error = (h.at = "threw")
           /\ h.at \notin {"screenshot", "import"} => Cardinality(RepliesTo(k)) = 1

====
